---- MODULE Spec2Model ----
(***************************************************************************)
(* Automated paper correction: the grade mapping, the per-question        *)
(* grading loop (utils.grade_paper_locally), the answer segmenter         *)
(* (utils.parse_answers), the teacher dashboard's batch loop              *)
(* (app.show_teacher_dashboard), the cached scoring model                 *)
(* (utils.get_cross_encoder), the database save                           *)
(* (utils.save_results_to_db) and the session's login state (auth.login,  *)
(* auth.handle_logout).                                                   *)
(*                                                                         *)
(* Similarities are floats in the program; here a similarity is an        *)
(* integer number of thousandths, so 0.9 is 900 and 1.0 is 1000.          *)
(* A Python dict is a sequence of [q, a] entries with distinct keys, in   *)
(* insertion order; a text is a sequence of one-character strings.        *)
(***************************************************************************)
EXTENDS Integers, Sequences, FiniteSets, TLC

VARIABLES
    \* ---- the grade mapping applied to one similarity
    similarity,        \* the similarity handed to the mapping
    grade,             \* <<>>, or <<[score, feedback]>> once the mapping ran
    \* ---- one call of grade_paper_locally, and the same call on the
    \*      student map without its student-only entries
    teacher_answers,   \* dict: sequence of [q, a]
    student_answers,   \* dict: sequence of [q, a]
    model,             \* what get_cross_encoder() returned
    run,               \* the call on student_answers
    ref,               \* the call on student_answers cut to the teacher's keys
    percentage,        \* <<>>, or <<the caller's percentage for the call>>
    \* ---- one call of parse_answers
    lines,             \* how the text was built (<<>>: free text)
    text,              \* the argument
    answers,           \* <<>>, or <<the dict returned>>
    \* ---- one press of "Start Grading Process"
    teacher_file,      \* the uploaded key, or None
    gemini,            \* what get_gemini_model() returns in this process
    student_files,     \* the uploaded scripts, in upload order
    pc,                \* where the script is
    i,                 \* scripts the loop is done with
    calls,             \* calls made so far, by callee
    messages,          \* st.error, st.warning and st.success shown, in order
    saved,             \* the calls of save_results_to_db, in order
    overall_summary,   \* the batch summary
    \* ---- get_cross_encoder, over the life of one process
    cross_encoder,     \* what st.cache_resource keeps: <<>>, or <<the value>>
    constructions,     \* how often CrossEncoder(...) was constructed
    handed,            \* the calls of get_cross_encoder and what each got
    \* ---- save_results_to_db, call after call
    db,                \* the rows committed to the database
    tx,                \* the rows inserted on the open connection
    save_pc,           \* where the call is
    student_name,      \* argument of the call
    detailed_breakdown, \* argument of the call
    result_id,         \* cursor.lastrowid
    item,              \* breakdown items inserted
    returns,           \* the calls that returned, with what they returned
    \* ---- one session's login state
    users,             \* the rows of the users table
    session,           \* st.session_state: logged_in, username, role, subject
    attempt,           \* the last press of Login: what was typed, how it ended
    last_success       \* the last login that succeeded or logout, if any

mapVars   == <<similarity, grade>>
gradeVars == <<teacher_answers, student_answers, model, run, ref, percentage>>
parseVars == <<lines, text, answers>>
batchVars == <<teacher_file, gemini, student_files, pc, i, calls, messages,
               saved, overall_summary>>
cacheVars == <<cross_encoder, constructions, handed>>
saveVars  == <<db, tx, save_pc, student_name, detailed_breakdown, result_id,
               item, returns>>
authVars  == <<users, session, attempt, last_success>>
vars      == <<mapVars, gradeVars, parseVars, batchVars, cacheVars, saveVars,
               authVars>>

None == "None"

(***************************************************************************)
(* The grade mapping: utils.py lines 197-212.                              *)
(***************************************************************************)

\* The similarities tried: 0.000, 0.001, ... up to SimMax thousandths.
SimMax == 1000

Similarities == 0..SimMax

GradeOf_StrictExcellent(s) ==
    IF s > 900 THEN
        [score |-> 10, feedback |-> "Excellent. The answer is correct and complete."]
    ELSE IF s >= 800 THEN
        [score |-> 8, feedback |-> "Very Good. The answer captures all main points."]
    ELSE IF s >= 700 THEN
        [score |-> 7, feedback |-> "Good. The answer captures the main points, but lacks some detail."]
    ELSE IF s >= 600 THEN
        [score |-> 5, feedback |-> "Partial. The answer is missing key concepts."]
    ELSE
        [score |-> 0, feedback |-> "Incorrect. The answer does not match the key."]

\* The mapping with the scores of the two middle tiers exchanged.
GradeOf_MiddleTiersSwapped(s) ==
    IF s >= 900 THEN
        [score |-> 10, feedback |-> "Excellent. The answer is correct and complete."]
    ELSE IF s >= 800 THEN
        [score |-> 7, feedback |-> "Very Good. The answer captures all main points."]
    ELSE IF s >= 700 THEN
        [score |-> 8, feedback |-> "Good. The answer captures the main points, but lacks some detail."]
    ELSE IF s >= 600 THEN
        [score |-> 5, feedback |-> "Partial. The answer is missing key concepts."]
    ELSE
        [score |-> 0, feedback |-> "Incorrect. The answer does not match the key."]

\* if similarity >= 0.9 ... elif ... else: the score and the feedback.
GradeOf(s) ==
    IF s >= 900 THEN
        [score |-> 10, feedback |-> "Excellent. The answer is correct and complete."]
    ELSE IF s >= 800 THEN
        [score |-> 8, feedback |-> "Very Good. The answer captures all main points."]
    ELSE IF s >= 700 THEN
        [score |-> 7, feedback |-> "Good. The answer captures the main points, but lacks some detail."]
    ELSE IF s >= 600 THEN
        [score |-> 5, feedback |-> "Partial. The answer is missing key concepts."]
    ELSE
        [score |-> 0, feedback |-> "Incorrect. The answer does not match the key."]

MapInit ==
    /\ similarity \in Similarities
    /\ grade = <<>>

MapSimilarity ==
    /\ grade = <<>>
    /\ grade' = <<GradeOf(similarity)>>
    /\ UNCHANGED <<similarity, gradeVars, parseVars, batchVars, cacheVars, saveVars,
                   authVars>>

(***************************************************************************)
(* Python dicts.                                                           *)
(***************************************************************************)

\* The keys of a dict.
Keys(d) == {d[k].q : k \in DOMAIN d}

\* d[key], for a key of d.
Lookup(d, key) == d[CHOOSE k \in DOMAIN d : d[k].q = key].a

\* d.get(key, default)
DictGet(d, key, default) == IF key \in Keys(d) THEN Lookup(d, key) ELSE default

\* The entries of d whose key is in keys, in d's order.
Restrict(d, keys) == SelectSeq(d, LAMBDA e : e.q \in keys)

\* Every dict of at most n entries with keys in ks and values in vs.
Dicts(ks, vs, n) ==
    UNION {{d \in [1..m -> [q : ks, a : vs]] :
               \A j, k \in 1..m : d[j].q = d[k].q => j = k} : m \in 0..n}

(***************************************************************************)
(* grade_paper_locally: utils.py lines 171-225.                            *)
(***************************************************************************)

\* How many question identifiers the maps draw their keys from.
NumIds == 2

IdPool == <<"1", "01", "2", "3", "10">>

Ids == {IdPool[k] : k \in 1..NumIds}

TeacherTexts == {"ta", "tb"}

StudentTexts == {"a", "b"}

Sentinel == "No answer found."

\* model.predict raising, where a similarity is expected.
Raises == -1

\* What model.predict does for a pair: a similarity, or an exception.
Predictions == {300, 600, 900, Raises}

\* f"{score}/10"
ScoreStr(score) ==
    CASE score = 10 -> "10/10"
      [] score = 8  -> "8/10"
      [] score = 7  -> "7/10"
      [] score = 5  -> "5/10"
      [] score = 0  -> "0/10"

\* The locals at function entry: lines 173-175.
Entry == [idx |-> 0, results |-> <<>>, total_score |-> 0, max_score |-> 0,
          status |-> "loop"]

\* The loop body (lines 181-223) without the missing-answer shortcut.
GradeQuestion_NoShortcut(r, q_num, t_answer, students, mdl, predicted) ==
    LET s_answer == DictGet(students, q_num, Sentinel)
    IN  IF mdl = None \/ predicted = Raises THEN [r EXCEPT !.status = "raised"]
        ELSE LET g == GradeOf(predicted)
             IN  [idx         |-> r.idx + 1,
                  results     |-> Append(r.results,
                                    [Question      |-> q_num,
                                     TeacherAnswer |-> t_answer,
                                     StudentAnswer |-> s_answer,
                                     Score         |-> ScoreStr(g.score),
                                     Feedback      |-> g.feedback]),
                  total_score |-> r.total_score + g.score,
                  max_score   |-> r.max_score + 10,
                  status      |-> "loop"]

\* The loop body pairing the student's answers by position instead of by key.
GradeQuestion_ByPosition(r, q_num, t_answer, students, mdl, predicted) ==
    LET s_answer == IF r.idx + 1 <= Len(students) THEN students[r.idx + 1].a
                    ELSE Sentinel
        called   == s_answer # Sentinel
    IN  IF called /\ (mdl = None \/ predicted = Raises)
        THEN [r EXCEPT !.status = "raised"]
        ELSE LET g == GradeOf(IF called THEN predicted ELSE 0)
             IN  [idx         |-> r.idx + 1,
                  results     |-> Append(r.results,
                                    [Question      |-> q_num,
                                     TeacherAnswer |-> t_answer,
                                     StudentAnswer |-> s_answer,
                                     Score         |-> ScoreStr(g.score),
                                     Feedback      |-> g.feedback]),
                  total_score |-> r.total_score + g.score,
                  max_score   |-> r.max_score + 10,
                  status      |-> "loop"]

\* The loop body taking, for a missing key, the student's last answer.
GradeQuestion_LastAnswer(r, q_num, t_answer, students, mdl, predicted) ==
    LET s_answer == DictGet(students, q_num,
                            IF students = <<>> THEN Sentinel
                            ELSE students[Len(students)].a)
        called   == s_answer # Sentinel
    IN  IF called /\ (mdl = None \/ predicted = Raises)
        THEN [r EXCEPT !.status = "raised"]
        ELSE LET g == GradeOf(IF called THEN predicted ELSE 0)
             IN  [idx         |-> r.idx + 1,
                  results     |-> Append(r.results,
                                    [Question      |-> q_num,
                                     TeacherAnswer |-> t_answer,
                                     StudentAnswer |-> s_answer,
                                     Score         |-> ScoreStr(g.score),
                                     Feedback      |-> g.feedback]),
                  total_score |-> r.total_score + g.score,
                  max_score   |-> r.max_score + 10,
                  status      |-> "loop"]

\* The loop body adding the full 10 to the total for a partial answer.
GradeQuestion_PartialCountsFull(r, q_num, t_answer, students, mdl, predicted) ==
    LET s_answer == DictGet(students, q_num, Sentinel)
        called   == s_answer # Sentinel
    IN  IF called /\ (mdl = None \/ predicted = Raises)
        THEN [r EXCEPT !.status = "raised"]
        ELSE LET g == GradeOf(IF called THEN predicted ELSE 0)
             IN  [idx         |-> r.idx + 1,
                  results     |-> Append(r.results,
                                    [Question      |-> q_num,
                                     TeacherAnswer |-> t_answer,
                                     StudentAnswer |-> s_answer,
                                     Score         |-> ScoreStr(g.score),
                                     Feedback      |-> g.feedback]),
                  total_score |-> r.total_score + (IF g.score = 5 THEN 10 ELSE g.score),
                  max_score   |-> r.max_score + 10,
                  status      |-> "loop"]

\* One iteration of "for q_num, t_answer in teacher_answers.items()", lines
\* 181-223, on the locals r. predicted is what model.predict does for the
\* pair [t_answer, s_answer]; mdl = None makes model.predict an
\* AttributeError. An exception leaves the function: nothing is returned.
GradeQuestion(r, q_num, t_answer, students, mdl, predicted) ==
    LET s_answer == DictGet(students, q_num, Sentinel)
        called   == s_answer # Sentinel
    IN  IF called /\ (mdl = None \/ predicted = Raises)
        THEN [r EXCEPT !.status = "raised"]
        ELSE LET g == GradeOf(IF called THEN predicted ELSE 0)
             IN  [idx         |-> r.idx + 1,
                  results     |-> Append(r.results,
                                    [Question      |-> q_num,
                                     TeacherAnswer |-> t_answer,
                                     StudentAnswer |-> s_answer,
                                     Score         |-> ScoreStr(g.score),
                                     Feedback      |-> g.feedback]),
                  total_score |-> r.total_score + g.score,
                  max_score   |-> r.max_score + 10,
                  status      |-> "loop"]

\* The student map without the entries the teacher's key does not have.
Core == Restrict(student_answers, Keys(teacher_answers))

\* What the caller gets: the returned triple, or the exception.
Outcome(r) ==
    IF r.status = "returned"
    THEN [status |-> "returned", results |-> r.results,
          total_score |-> r.total_score, max_score |-> r.max_score]
    ELSE [status |-> r.status, results |-> <<>>, total_score |-> 0,
          max_score |-> 0]

GradeInit ==
    /\ teacher_answers \in Dicts(Ids, TeacherTexts, NumIds)
    /\ student_answers \in Dicts(Ids, StudentTexts, NumIds)
    /\ model \in {None, "CrossEncoder"}
    /\ run = Entry
    /\ ref = Entry
    /\ percentage = <<>>

\* The next loop iteration, in the call on student_answers and in the call
\* on Core. model.predict is a function of the pair it is given: the two
\* calls get the same prediction when they ask about the same pair.
GradeNextQuestion ==
    /\ run.status = "loop"
    /\ run.idx < Len(teacher_answers)
    /\ LET e == teacher_answers[run.idx + 1]
       IN  \E p1, p2 \in Predictions :
             /\ DictGet(student_answers, e.q, Sentinel) = DictGet(Core, e.q, Sentinel)
                   => p1 = p2
             /\ run' = GradeQuestion(run, e.q, e.a, student_answers, model, p1)
             /\ ref' = IF ref.status = "loop" /\ ref.idx < Len(teacher_answers)
                       THEN GradeQuestion(ref, teacher_answers[ref.idx + 1].q,
                                          teacher_answers[ref.idx + 1].a,
                                          Core, model, p2)
                       ELSE ref
    /\ UNCHANGED <<teacher_answers, student_answers, model, percentage>>
    /\ UNCHANGED <<mapVars, parseVars, batchVars, cacheVars, saveVars,
                   authVars>>

\* return results, total_score, max_score: line 225.
GradeReturn ==
    /\ run.status = "loop"
    /\ run.idx = Len(teacher_answers)
    /\ run' = [run EXCEPT !.status = "returned"]
    /\ ref' = IF ref.status = "loop" /\ ref.idx = Len(teacher_answers)
              THEN [ref EXCEPT !.status = "returned"]
              ELSE ref
    /\ UNCHANGED <<teacher_answers, student_answers, model, percentage>>
    /\ UNCHANGED <<mapVars, parseVars, batchVars, cacheVars, saveVars,
                   authVars>>

\* The percentage without the test of max_s: the division raises
\* ZeroDivisionError when max_s is 0.
Percentage_Unguarded(total, max_s) ==
    IF max_s # 0 THEN (total * 100) \div max_s ELSE Raises

\* percentage = (total / max_s) * 100 if max_s > 0 else 0: app.py line 105.
\* The division is evaluated only when the test holds. In whole percent,
\* rounded down (a whole number already for keys of 1 or 2 questions).
Percentage(total, max_s) == IF max_s > 0 THEN (total * 100) \div max_s ELSE 0

\* The caller's next statement after the call returned: app.py line 105.
ComputePercentage ==
    /\ run.status = "returned"
    /\ percentage = <<>>
    /\ percentage' = <<Percentage(run.total_score, run.max_score)>>
    /\ UNCHANGED <<teacher_answers, student_answers, model, run, ref>>
    /\ UNCHANGED <<mapVars, parseVars, batchVars, cacheVars, saveVars,
                   authVars>>

(***************************************************************************)
(* parse_answers: utils.py lines 115-148. Offsets are 1-based here, and a  *)
(* match's stop is the offset after its last character.                    *)
(***************************************************************************)

\* \s
Spaces == {" ", "\n", "\t", "\r"}

\* \d
Digits == {"0", "1", "2", "3", "4", "5", "6", "7", "8", "9"}

\* [:.)-]
Separators == {":", ".", ")", "-"}

\* re.IGNORECASE, for the letters the pattern has.
Lower(c) ==
    CASE c = "Q" -> "q" [] c = "U" -> "u" [] c = "E" -> "e" [] c = "S" -> "s"
      [] c = "T" -> "t" [] c = "I" -> "i" [] c = "O" -> "o" [] c = "N" -> "n"
      [] OTHER -> c

\* ^ under re.MULTILINE
AtLineStart(t, p) == p = 1 \/ t[p - 1] = "\n"

\* Where a greedy run of characters of S that starts at p stops.
SkipWhile(t, p, S) ==
    CHOOSE j \in p..(Len(t) + 1) :
        /\ \A k \in p..(j - 1) : t[k] \in S
        /\ j = Len(t) + 1 \/ t[j] \notin S

\* Where .* stops: . matches everything but a line break.
LineEnd(t, p) ==
    CHOOSE j \in p..(Len(t) + 1) :
        /\ \A k \in p..(j - 1) : t[k] # "\n"
        /\ j = Len(t) + 1 \/ t[j] = "\n"

\* The literal w at p, case-insensitively.
HasWord(t, p, w) ==
    /\ p + Len(w) - 1 <= Len(t)
    /\ \A k \in 1..Len(w) : Lower(t[p + k - 1]) = w[k]

NoMatch == [ok |-> FALSE, start |-> 0, num |-> <<>>, content |-> 0, stop |-> 0]

\* \s*(\d+)\s*[:.)-]\s*(.*) at p, for a match that starts at start: num is
\* group 1, content is match.start(2), stop is match.end().
MatchRest(t, start, p) ==
    LET a == SkipWhile(t, p, Spaces)
        b == SkipWhile(t, a, Digits)
        c == SkipWhile(t, b, Spaces)
    IN  IF b > a /\ c <= Len(t) /\ t[c] \in Separators
        THEN LET d == SkipWhile(t, c + 1, Spaces)
             IN  [ok |-> TRUE, start |-> start, num |-> SubSeq(t, a, b - 1),
                  content |-> d, stop |-> LineEnd(t, d)]
        ELSE NoMatch

\* The pattern at p, a line start: (?:Q|Question)? tries Q, then Question,
\* then nothing.
MatchAt(t, p) ==
    LET viaQ        == IF HasWord(t, p, <<"q">>)
                       THEN MatchRest(t, p, p + 1) ELSE NoMatch
        viaQuestion == IF HasWord(t, p, <<"q", "u", "e", "s", "t", "i", "o", "n">>)
                       THEN MatchRest(t, p, p + 8) ELSE NoMatch
    IN  IF viaQ.ok THEN viaQ
        ELSE IF viaQuestion.ok THEN viaQuestion
        ELSE MatchRest(t, p, p)

\* The offsets from pos on where the pattern matches.
MatchStarts(t, pos) ==
    {p \in pos..Len(t) : AtLineStart(t, p) /\ MatchAt(t, p).ok}

\* pattern.finditer(text): the leftmost match from pos on, then the matches
\* after its end.
RECURSIVE FindIter(_, _)
FindIter(t, pos) ==
    IF MatchStarts(t, pos) = {} THEN <<>>
    ELSE LET p == CHOOSE x \in MatchStarts(t, pos) :
                      \A y \in MatchStarts(t, pos) : x <= y
             m == MatchAt(t, p)
         IN  <<m>> \o FindIter(t, m.stop)

\* str.strip()
Strip(s) ==
    LET first == SkipWhile(s, 1, Spaces)
    IN  IF first > Len(s) THEN <<>>
        ELSE SubSeq(s, first,
                    CHOOSE j \in first..Len(s) :
                        /\ s[j] \notin Spaces
                        /\ \A k \in (j + 1)..Len(s) : s[k] \in Spaces)

\* The assignment keeping the value a key already has.
DictSet_KeepsFirst(d, key, value) ==
    IF key \in Keys(d) THEN d
    ELSE Append(d, [q |-> key, a |-> value])

\* d[key] = value
DictSet(d, key, value) ==
    IF key \in Keys(d)
    THEN [k \in DOMAIN d |-> IF d[k].q = key THEN [q |-> key, a |-> value] ELSE d[k]]
    ELSE Append(d, [q |-> key, a |-> value])

\* The same loop cutting each answer from match.start() instead of
\* match.start(2).
RECURSIVE CollectAnswers_FromMatchStart(_, _, _, _)
CollectAnswers_FromMatchStart(t, match_list, k, d) ==
    IF k > Len(match_list)
    THEN DictSet(d, match_list[Len(match_list)].num,
                 Strip(SubSeq(t, match_list[Len(match_list)].start, Len(t))))
    ELSE CollectAnswers_FromMatchStart(t, match_list, k + 1,
            IF k = 1 THEN d
            ELSE DictSet(d, match_list[k - 1].num,
                         Strip(SubSeq(t, match_list[k - 1].start,
                                      match_list[k].start - 1))))

\* The loop of lines 133-142 from match k on, then lines 144-146: each
\* match closes the answer of the match before it, the last one runs to the
\* end of the text.
RECURSIVE CollectAnswers(_, _, _, _)
CollectAnswers(t, match_list, k, d) ==
    IF k > Len(match_list)
    THEN DictSet(d, match_list[Len(match_list)].num,
                 Strip(SubSeq(t, match_list[Len(match_list)].content, Len(t))))
    ELSE CollectAnswers(t, match_list, k + 1,
            IF k = 1 THEN d
            ELSE DictSet(d, match_list[k - 1].num,
                         Strip(SubSeq(t, match_list[k - 1].content,
                                      match_list[k].start - 1))))

\* The fallback of line 131 without the strip().
Fallback_NoStrip(t) == <<[q |-> <<"1">>, a |-> t]>>

\* return {"1": text.strip()}: line 131.
Fallback(t) == <<[q |-> <<"1">>, a |-> Strip(t)]>>

parse_answers(t) ==
    LET match_list == FindIter(t, 1)
    IN  IF match_list = <<>> THEN Fallback(t)
        ELSE CollectAnswers(t, match_list, 1, <<>>)

\* ---- the texts tried

\* How many "Q<k>: <answer>" lines a built text has at most.
MaxLines == 2

\* How many tokens a free text has at most.
MaxTokens == 4

Numbers == {<<"1">>, <<"2">>, <<"1", "0">>}

AnswerTexts ==
    {<<"a">>, <<"a", " ", "b">>, <<"1", ".", "a">>, <<"4", "2">>,
     <<"a", " ">>, <<" ", "a">>, <<" ">>, <<>>}

\* The lines of a built text; a number may come back on a later line.
LineSeqs == UNION {[1..n -> [k : Numbers, ans : AnswerTexts]] : n \in 1..MaxLines}

\* "Q<k>: <ans>" for each line, joined by line breaks.
RECURSIVE Build(_)
Build(ls) ==
    IF ls = <<>> THEN <<>>
    ELSE <<"Q">> \o ls[1].k \o <<":", " ">> \o ls[1].ans
         \o (IF Len(ls) = 1 THEN <<>> ELSE <<"\n">> \o Build(Tail(ls)))

Tokens ==
    {<<"Q">>, <<"Q", "u", "e", "s", "t", "i", "o", "n">>, <<"1">>, <<"2">>,
     <<":">>, <<"-">>, <<" ">>, <<"\n">>, <<"a">>}

RECURSIVE Concat(_)
Concat(ts) == IF ts = <<>> THEN <<>> ELSE ts[1] \o Concat(Tail(ts))

FreeTexts == {Concat(ts) : ts \in UNION {[1..n -> Tokens] : n \in 0..MaxTokens}}

ParseInit ==
    /\ \/ lines \in LineSeqs /\ text = Build(lines)
       \/ lines = <<>> /\ text \in FreeTexts
    /\ answers = <<>>

ParseAnswers ==
    /\ answers = <<>>
    /\ answers' = <<parse_answers(text)>>
    /\ UNCHANGED <<lines, text>>
    /\ UNCHANGED <<mapVars, gradeVars, batchVars, cacheVars, saveVars,
                   authVars>>

(***************************************************************************)
(* show_teacher_dashboard, from the press of "Start Grading Process" on:   *)
(* app.py lines 54-146. A script is named by its place in the upload. What *)
(* the outside does for a script (the OCR service, the scoring backend,    *)
(* the feedback model, the database) comes with the script.                *)
(***************************************************************************)

\* len(student_files) > 30
MaxScripts == 30

\* How many scripts a batch has at most, short of the batches at the limit.
MaxBatch == 2

NoCalls == [process |-> 0, ocr |-> 0, parse |-> 0, grade |-> 0,
            feedback |-> 0, save |-> 0]

\* A key: typed text (docx), or pages the OCR reads (image) or not (blank),
\* and the number of questions parse_answers finds in its text.
TeacherFiles ==
    {[kind |-> k, questions |-> n] : k \in {"docx", "image"}, n \in 1..2}
        \cup {[kind |-> "blank", questions |-> 1]}

\* A script: whether the OCR yields text for it; whether grade_paper_locally
\* returns or raises on it, and the total it returns; whether
\* generate_content, if it is called for the script, gives a text or fails;
\* whether the database takes the script's rows.
Scripts ==
    {[text |-> FALSE, grading |-> "none", total |-> 0, feedback |-> "none",
      save |-> FALSE]}
    \cup {[text |-> TRUE, grading |-> "raises", total |-> 0,
           feedback |-> "none", save |-> FALSE]}
    \cup {[text |-> TRUE, grading |-> "returns", total |-> t, feedback |-> f,
           save |-> d] : t \in {0, 5, 10}, f \in {"text", "fails"},
                         d \in BOOLEAN}

Batches ==
    UNION {[1..n -> Scripts] : n \in 0..MaxBatch}
        \cup {[k \in 1..n |-> f] : n \in {MaxScripts, MaxScripts + 1}, f \in Scripts}

OverLimit_OffByOne(n) == n > MaxScripts + 1

\* if len(student_files) > 30: line 60.
OverLimit(n) == n > MaxScripts

\* The loop after a script without text, had the continue also passed over
\* the script after it.
AfterSkip_SkipsNext(done, n) == IF done + 2 <= n THEN done + 2 ELSE n

\* The loop after a script without text, had line 97 been a break.
AfterSkip_Break(done, n) == n

\* continue: line 97. The scripts the loop is done with, after a script
\* without text.
AfterSkip(done, n) == done + 1

\* What a call gives its caller: a value, or an exception; and whether the
\* call showed an st.error.
Returned(value, shown) == [raised |-> FALSE, value |-> value, error |-> shown]

CouldNotGenerate == "Could not generate AI feedback."
FailedToGenerate == "Failed to generate AI feedback."

\* get_overall_feedback without the try around generate_content.
get_overall_feedback_Propagates(mdl, generate) ==
    IF mdl = None THEN Returned(CouldNotGenerate, FALSE)
    ELSE IF generate = "fails"
    THEN [raised |-> TRUE, value |-> "", error |-> FALSE]
    ELSE Returned("response.text", FALSE)

\* get_overall_feedback: utils.py lines 229-253. mdl is what get_gemini_model()
\* returned; generate is what model.generate_content does.
get_overall_feedback(mdl, generate) ==
    IF mdl = None THEN Returned(CouldNotGenerate, FALSE)
    ELSE IF generate = "fails" THEN Returned(FailedToGenerate, TRUE)
    ELSE Returned("response.text", FALSE)

\* save_results_to_db without its except clause.
save_results_to_db_Propagates(db_ok) ==
    IF db_ok THEN Returned(TRUE, FALSE)
    ELSE [raised |-> TRUE, value |-> FALSE, error |-> FALSE]

\* save_results_to_db as its caller sees it: utils.py lines 258-303. db_ok is
\* whether every statement against the database succeeds.
save_results_to_db(db_ok) == Returned(db_ok, ~db_ok)

BatchInit ==
    /\ teacher_file \in TeacherFiles \cup {[kind |-> None, questions |-> 1]}
    /\ gemini \in {None, "GenerativeModel"}
    /\ student_files \in Batches
    /\ pc = "form"
    /\ i = 0
    /\ calls = NoCalls
    /\ messages = <<>>
    /\ saved = <<>>
    /\ overall_summary = <<>>

MissingUpload == [kind |-> "error", about |-> "upload both"]
LimitError    == [kind |-> "error", about |-> "limit"]
KeyError      == [kind |-> "error", about |-> "teacher key"]
AllGraded     == [kind |-> "success", about |-> "all graded"]
Skipping(k)   == [kind |-> "warning", about |-> k]
FeedbackError(k) == [kind |-> "error", about |-> "feedback", student |-> k]
SaveError(k)     == [kind |-> "error", about |-> "save", student |-> k]

\* if submit_button: the input validation, lines 54-63. st.stop() ends the
\* script run.
Validate ==
    /\ pc = "form"
    /\ IF teacher_file.kind = None \/ student_files = <<>>
       THEN /\ messages' = Append(messages, MissingUpload)
            /\ pc' = "stopped"
       ELSE IF OverLimit(Len(student_files))
       THEN /\ messages' = Append(messages, LimitError)
            /\ pc' = "stopped"
       ELSE /\ messages' = messages
            /\ pc' = "teacher"
    /\ UNCHANGED <<teacher_file, gemini, student_files, i, calls, saved,
                   overall_summary>>
    /\ UNCHANGED <<mapVars, gradeVars, parseVars, cacheVars, saveVars,
                   authVars>>

\* Step 1, lines 65-82: the key's text, typed or through the OCR, then its
\* questions.
ProcessTeacherKey ==
    /\ pc = "teacher"
    /\ IF teacher_file.kind = "docx"
       THEN /\ calls' = [calls EXCEPT !.process = @ + 1, !.parse = @ + 1]
            /\ messages' = messages
            /\ pc' = "loop"
       ELSE IF teacher_file.kind = "image"
       THEN /\ calls' = [calls EXCEPT !.process = @ + 1, !.ocr = @ + 1,
                                      !.parse = @ + 1]
            /\ messages' = messages
            /\ pc' = "loop"
       ELSE /\ calls' = [calls EXCEPT !.process = @ + 1, !.ocr = @ + 1]
            /\ messages' = Append(messages, KeyError)
            /\ pc' = "stopped"
    /\ UNCHANGED <<teacher_file, gemini, student_files, i, saved, overall_summary>>
    /\ UNCHANGED <<mapVars, gradeVars, parseVars, cacheVars, saveVars,
                   authVars>>

\* One iteration of "for i, student_file in enumerate(student_files)", lines
\* 87-140. An exception out of a call ends the script run.
GradeStudent ==
    /\ pc = "loop"
    /\ i < Len(student_files)
    /\ LET k     == i + 1
           f     == student_files[k]
           max_s == 10 * teacher_file.questions
       IN  IF ~f.text
           THEN /\ calls' = [calls EXCEPT !.process = @ + 1, !.ocr = @ + 1]
                /\ messages' = Append(messages, Skipping(k))
                /\ i' = AfterSkip(i, Len(student_files))
                /\ UNCHANGED <<pc, saved, overall_summary>>
           ELSE IF f.grading = "raises"
           THEN /\ calls' = [calls EXCEPT !.process = @ + 1, !.ocr = @ + 1,
                                          !.parse = @ + 1, !.grade = @ + 1]
                /\ pc' = "crashed"
                /\ UNCHANGED <<i, messages, saved, overall_summary>>
           ELSE LET fb   == get_overall_feedback(gemini, f.feedback)
                    sv   == save_results_to_db(f.save)
                    call == [student          |-> k,
                             total_score      |-> f.total,
                             max_score        |-> max_s,
                             percentage       |-> Percentage(f.total, max_s),
                             overall_feedback |-> fb.value,
                             ok               |-> sv.value]
                    shown == (IF fb.error THEN <<FeedbackError(k)>> ELSE <<>>)
                             \o (IF sv.error THEN <<SaveError(k)>> ELSE <<>>)
                IN  IF fb.raised
                    THEN /\ calls' = [calls EXCEPT !.process = @ + 1, !.ocr = @ + 1,
                                          !.parse = @ + 1, !.grade = @ + 1,
                                          !.feedback = @ + 1]
                         /\ pc' = "crashed"
                         /\ UNCHANGED <<i, messages, saved, overall_summary>>
                    ELSE IF sv.raised
                    THEN /\ calls' = [calls EXCEPT !.process = @ + 1, !.ocr = @ + 1,
                                          !.parse = @ + 1, !.grade = @ + 1,
                                          !.feedback = @ + 1, !.save = @ + 1]
                         /\ saved' = Append(saved, call)
                         /\ messages' = messages \o
                               (IF fb.error THEN <<FeedbackError(k)>> ELSE <<>>)
                         /\ pc' = "crashed"
                         /\ UNCHANGED <<i, overall_summary>>
                    ELSE /\ calls' = [calls EXCEPT !.process = @ + 1, !.ocr = @ + 1,
                                          !.parse = @ + 1, !.grade = @ + 1,
                                          !.feedback = @ + 1, !.save = @ + 1]
                         /\ saved' = Append(saved, call)
                         /\ messages' = messages \o shown
                         /\ overall_summary' = Append(overall_summary,
                              [Student    |-> k,
                               total      |-> f.total,
                               max_s      |-> max_s,
                               Percentage |-> Percentage(f.total, max_s)])
                         /\ i' = i + 1
                         /\ UNCHANGED pc
    /\ UNCHANGED <<teacher_file, gemini, student_files>>
    /\ UNCHANGED <<mapVars, gradeVars, parseVars, cacheVars, saveVars,
                   authVars>>

\* After the loop, lines 142-146: the success message and the batch summary.
Finish ==
    /\ pc = "loop"
    /\ i = Len(student_files)
    /\ pc' = "done"
    /\ messages' = Append(messages, AllGraded)
    /\ UNCHANGED <<teacher_file, gemini, student_files, i, calls, saved,
                   overall_summary>>
    /\ UNCHANGED <<mapVars, gradeVars, parseVars, cacheVars, saveVars,
                   authVars>>

(***************************************************************************)
(* get_cross_encoder under @st.cache_resource: utils.py lines 24-32, as    *)
(* the sessions of one process call it (grade_paper_locally, line 178).    *)
(* A CrossEncoder object is known by the number of the construction that   *)
(* made it.                                                                *)
(***************************************************************************)

\* How many sessions the process serves.
NumSessions == 3

\* How many calls of get_cross_encoder are followed.
MaxRequests == 4

Sessions == 1..NumSessions

\* return None: line 32.
NoCrossEncoder == [loaded |-> FALSE, id |-> 0]

\* The decorator keeping nothing.
cache_resource_KeepsNothing(cached, value) == <<>>

\* @st.cache_resource, line 24: what the function returned is kept for the
\* process, None included.
cache_resource(cached, value) == <<value>>

CacheInit ==
    /\ cross_encoder = <<>>
    /\ constructions = 0
    /\ handed = <<>>

\* model = get_cross_encoder(), in session s. Without a kept value the body
\* runs: CrossEncoder(...) gives an object or raises, and the except clause
\* turns the exception into None.
GetCrossEncoder(s) ==
    /\ Len(handed) < MaxRequests
    /\ IF cross_encoder = <<>>
       THEN \E ok \in BOOLEAN :
              LET value == IF ok THEN [loaded |-> TRUE, id |-> constructions + 1]
                           ELSE NoCrossEncoder
              IN  /\ constructions' = constructions + 1
                  /\ cross_encoder' = cache_resource(cross_encoder, value)
                  /\ handed' = Append(handed, [session |-> s, model |-> value])
       ELSE /\ handed' = Append(handed, [session |-> s, model |-> cross_encoder[1]])
            /\ UNCHANGED <<cross_encoder, constructions>>
    /\ UNCHANGED <<mapVars, gradeVars, parseVars, batchVars, saveVars,
                   authVars>>

(***************************************************************************)
(* save_results_to_db statement by statement: utils.py lines 258-303. The  *)
(* database is the rows committed to results_db.sqlite; tx is the rows the *)
(* open connection has inserted and not committed.                         *)
(***************************************************************************)

\* How many calls of save_results_to_db are followed.
MaxSaves == 2

Students == {"s1", "s2"}

\* detailed_breakdown: one item per question of the key, named by its
\* question.
Breakdowns == {SubSeq(IdPool, 1, n) : n \in 0..NumIds}

EmptyRows == [results |-> <<>>, detailed |-> <<>>]

\* conn.commit(): line 300.
Commit(database, pending) ==
    [results  |-> database.results \o pending.results,
     detailed |-> database.detailed \o pending.detailed]

\* Leaving the with block on an exception, had it committed.
Rollback_Commits(database, pending) == Commit(database, pending)

\* Leaving "with sqlite3.connect(...) as conn" on an exception: the
\* connection rolls the open transaction back.
Rollback(database, pending) == database

\* cursor.lastrowid for a new results row: one more than the largest id.
LastRowId(database, pending) ==
    Len(database.results) + Len(pending.results) + 1

Return(value) ==
    [value |-> value, student_name |-> student_name,
     detailed_breakdown |-> detailed_breakdown, result_id |-> result_id,
     items |-> item]

SaveInit ==
    /\ db = EmptyRows
    /\ tx = EmptyRows
    /\ save_pc = "idle"
    /\ student_name = ""
    /\ detailed_breakdown = <<>>
    /\ result_id = 0
    /\ item = 0
    /\ returns = <<>>

\* An exception inside the try: the with block is left, the except clause
\* shows the error and returns False (lines 302-303).
SaveFails ==
    /\ db' = Rollback(db, tx)
    /\ tx' = EmptyRows
    /\ save_pc' = "idle"
    /\ returns' = Append(returns, Return(FALSE))
    /\ UNCHANGED <<student_name, detailed_breakdown, result_id, item>>

\* The call, and sqlite3.connect: lines 258-262.
SaveCall ==
    /\ save_pc = "idle"
    /\ Len(returns) < MaxSaves
    /\ \E s \in Students, b \in Breakdowns, ok \in BOOLEAN :
          /\ student_name' = s
          /\ detailed_breakdown' = b
          /\ result_id' = 0
          /\ item' = 0
          /\ IF ok
             THEN /\ save_pc' = "results"
                  /\ returns' = returns
             ELSE /\ save_pc' = "idle"
                  /\ returns' = Append(returns,
                        [value |-> FALSE, student_name |-> s,
                         detailed_breakdown |-> b, result_id |-> 0, items |-> 0])
    /\ UNCHANGED <<db, tx>>
    /\ UNCHANGED <<mapVars, gradeVars, parseVars, batchVars, cacheVars,
                   authVars>>

\* INSERT INTO results, and result_id = cursor.lastrowid: lines 264-281.
SaveInsertResult ==
    /\ save_pc = "results"
    /\ \E ok \in BOOLEAN :
          IF ok
          THEN /\ tx' = [tx EXCEPT !.results =
                            Append(@, [id |-> LastRowId(db, tx),
                                       student_name |-> student_name])]
               /\ result_id' = LastRowId(db, tx)
               /\ save_pc' = "details"
               /\ UNCHANGED <<db, student_name, detailed_breakdown, item, returns>>
          ELSE SaveFails
    /\ UNCHANGED <<mapVars, gradeVars, parseVars, batchVars, cacheVars,
                   authVars>>

\* One iteration of "for item in detailed_breakdown": lines 283-298.
SaveInsertDetail ==
    /\ save_pc = "details"
    /\ item < Len(detailed_breakdown)
    /\ \E ok \in BOOLEAN :
          IF ok
          THEN /\ tx' = [tx EXCEPT !.detailed =
                            Append(@, [result_id |-> result_id,
                                       question  |-> detailed_breakdown[item + 1]])]
               /\ item' = item + 1
               /\ UNCHANGED <<db, save_pc, student_name, detailed_breakdown,
                              result_id, returns>>
          ELSE SaveFails
    /\ UNCHANGED <<mapVars, gradeVars, parseVars, batchVars, cacheVars,
                   authVars>>

\* conn.commit() and return True: lines 300-301.
SaveCommit ==
    /\ save_pc = "details"
    /\ item = Len(detailed_breakdown)
    /\ \E ok \in BOOLEAN :
          IF ok
          THEN /\ db' = Commit(db, tx)
               /\ tx' = EmptyRows
               /\ save_pc' = "idle"
               /\ returns' = Append(returns, Return(TRUE))
               /\ UNCHANGED <<student_name, detailed_breakdown, result_id, item>>
          ELSE SaveFails
    /\ UNCHANGED <<mapVars, gradeVars, parseVars, batchVars, cacheVars,
                   authVars>>

(***************************************************************************)
(* One session's login state: auth.py signup (lines 62-90), login (lines   *)
(* 92-111) and handle_logout (lines 127-133), on the users table of        *)
(* init_db and the session state of app.py lines 17-22. The login page is  *)
(* rendered while logged_in is False, the Logout button while it is True   *)
(* (app.py lines 206-214).                                                 *)
(***************************************************************************)

\* How many usernames are typed.
NumUsers == 2

NamePool == <<"alice", "bob", "carol", "dave">>

Usernames == {NamePool[k] : k \in 1..NumUsers}

Passwords == {"pw1", "pw2"}

Roles == {"student", "teacher"}

Subjects == {"Math", "History"}

\* bcrypt.gensalt()
Salts == {1, 2}

\* bcrypt.hashpw: the hash holds the salt and a digest of salt and password.
hash_password(password, salt) == [salt |-> salt, digest |-> <<salt, password>>]

\* A check that accepts every password.
check_password_AcceptsAll(password, hashed) == TRUE

\* bcrypt.checkpw: hash the password with the salt of the stored hash and
\* compare. auth.py lines 55-60.
check_password(password, hashed) == hash_password(password, hashed.salt) = hashed

\* app.py lines 18-22, and what handle_logout leaves.
LoggedOut == [logged_in |-> FALSE, username |-> None, role |-> None,
              subject |-> None]

NoAttempt == [username |-> "", password |-> "", ok |-> FALSE,
              before |-> LoggedOut]

AuthInit ==
    /\ users = {}
    /\ session = LoggedOut
    /\ attempt = NoAttempt
    /\ last_success = "none"

\* The Sign Up button: the insert fails on a username the table has
\* (UNIQUE), and the table is left as it was.
Signup(u, p, r, s) ==
    /\ ~session.logged_in
    /\ \E salt \in Salts :
          users' = IF \E row \in users : row.username = u THEN users
                   ELSE users \cup {[username      |-> u,
                                     password_hash |-> hash_password(p, salt),
                                     role          |-> r,
                                     subject       |-> s]}
    /\ UNCHANGED <<session, attempt, last_success>>
    /\ UNCHANGED <<mapVars, gradeVars, parseVars, batchVars, cacheVars, saveVars>>

\* The Login button with username u and password p typed: lines 99-111.
Login(u, p) ==
    /\ ~session.logged_in
    /\ LET user_data == {row \in users : row.username = u}
           ok == \E row \in user_data : check_password(p, row.password_hash)
       IN  /\ attempt' = [username |-> u, password |-> p, ok |-> ok,
                          before |-> session]
           /\ IF ok
              THEN LET row == CHOOSE row \in user_data : TRUE
                   IN  /\ session' = [logged_in |-> TRUE, username |-> u,
                                      role |-> row.role, subject |-> row.subject]
                       /\ last_success' = "login"
              ELSE UNCHANGED <<session, last_success>>
    /\ UNCHANGED users
    /\ UNCHANGED <<mapVars, gradeVars, parseVars, batchVars, cacheVars, saveVars>>

\* The Logout button: handle_logout, lines 127-133.
Logout ==
    /\ session.logged_in
    /\ session' = LoggedOut
    /\ last_success' = "logout"
    /\ UNCHANGED <<users, attempt>>
    /\ UNCHANGED <<mapVars, gradeVars, parseVars, batchVars, cacheVars, saveVars>>

(***************************************************************************)
(* The specifications.                                                     *)
(***************************************************************************)

MapIdle == similarity = 0 /\ grade = <<>>

GradeIdle ==
    /\ teacher_answers = <<>>
    /\ student_answers = <<>>
    /\ model = None
    /\ run = Entry
    /\ ref = Entry
    /\ percentage = <<>>

ParseIdle == lines = <<>> /\ text = <<>> /\ answers = <<>>

BatchIdle ==
    /\ teacher_file = [kind |-> None, questions |-> 1]
    /\ gemini = None
    /\ student_files = <<>>
    /\ pc = "form"
    /\ i = 0
    /\ calls = NoCalls
    /\ messages = <<>>
    /\ saved = <<>>
    /\ overall_summary = <<>>

InitMap ==
    MapInit /\ GradeIdle /\ ParseIdle /\ BatchIdle /\ CacheInit /\ SaveInit
        /\ AuthInit

NextMap == MapSimilarity

SpecMap == InitMap /\ [][NextMap]_vars

InitGrade ==
    GradeInit /\ MapIdle /\ ParseIdle /\ BatchIdle /\ CacheInit /\ SaveInit
        /\ AuthInit

NextGrade == GradeNextQuestion \/ GradeReturn \/ ComputePercentage

SpecGrade == InitGrade /\ [][NextGrade]_vars

InitParse ==
    ParseInit /\ MapIdle /\ GradeIdle /\ BatchIdle /\ CacheInit /\ SaveInit
        /\ AuthInit

NextParse == ParseAnswers

SpecParse == InitParse /\ [][NextParse]_vars

InitBatch ==
    BatchInit /\ MapIdle /\ GradeIdle /\ ParseIdle /\ CacheInit /\ SaveInit
        /\ AuthInit

NextBatch == Validate \/ ProcessTeacherKey \/ GradeStudent \/ Finish

SpecBatch == InitBatch /\ [][NextBatch]_vars

InitCache ==
    CacheInit /\ MapIdle /\ GradeIdle /\ ParseIdle /\ BatchIdle /\ SaveInit
        /\ AuthInit

NextCache == \E s \in Sessions : GetCrossEncoder(s)

SpecCache == InitCache /\ [][NextCache]_vars

InitSave ==
    SaveInit /\ MapIdle /\ GradeIdle /\ ParseIdle /\ BatchIdle /\ CacheInit
        /\ AuthInit

NextSave == SaveCall \/ SaveInsertResult \/ SaveInsertDetail \/ SaveCommit

SpecSave == InitSave /\ [][NextSave]_vars

InitAuth ==
    AuthInit /\ MapIdle /\ GradeIdle /\ ParseIdle /\ BatchIdle /\ CacheInit
        /\ SaveInit

NextAuth ==
    \/ \E u \in Usernames, p \in Passwords, r \in Roles, s \in Subjects :
          Signup(u, p, r, s)
    \/ \E u \in Usernames, p \in Passwords : Login(u, p)
    \/ Logout

SpecAuth == InitAuth /\ [][NextAuth]_vars

(***************************************************************************)
(* The grade mapping and the grading loop: claims.                         *)
(***************************************************************************)

Excellent == "Excellent. The answer is correct and complete."
VeryGood  == "Very Good. The answer captures all main points."
Good      == "Good. The answer captures the main points, but lacks some detail."
Partial   == "Partial. The answer is missing key concepts."
Incorrect == "Incorrect. The answer does not match the key."

\* C1: every similarity gets exactly the score and tier of its range:
\* >= 0.90 gives 10 (Excellent), [0.80, 0.90) gives 8 (Very Good),
\* [0.70, 0.80) gives 7 (Good), [0.60, 0.70) gives 5 (Partial), and
\* < 0.60 gives 0 (Incorrect); the boundaries belong to the upper range.
C1_GradeThresholds ==
    grade # <<>> =>
        LET s == similarity
            g == grade[1]
        IN  /\ s >= 900 => g = [score |-> 10, feedback |-> Excellent]
            /\ (800 <= s /\ s < 900) => g = [score |-> 8, feedback |-> VeryGood]
            /\ (700 <= s /\ s < 800) => g = [score |-> 7, feedback |-> Good]
            /\ (600 <= s /\ s < 700) => g = [score |-> 5, feedback |-> Partial]
            /\ s < 600 => g = [score |-> 0, feedback |-> Incorrect]

\* C1's case: the boundary 0.60 was mapped, to 5 (Partial).
C1_Witness ==
    /\ similarity = 600
    /\ grade = <<[score |-> 5, feedback |-> Partial]>>

\* C14: the mapping is monotonic non-decreasing: a similarity that is not
\* smaller never gets a smaller score, one that is not larger never gets a
\* larger score, and the same similarity gets the same score and tier.
C14_Monotonic ==
    grade # <<>> =>
        \A s2 \in Similarities :
            /\ similarity <= s2 => grade[1].score <= GradeOf(s2).score
            /\ s2 <= similarity => GradeOf(s2).score <= grade[1].score
            /\ s2 = similarity => GradeOf(s2) = grade[1]

\* C14's case: 0.799 was mapped, to 7, one step below 0.800, which maps to 8.
C14_Witness ==
    /\ similarity = 799
    /\ grade # <<>>
    /\ grade[1].score = 7
    /\ GradeOf(similarity + 1).score = 8

\* C2: however the call ends, the caller gets a max_score, and it is 10
\* times the number of teacher questions, also when scoring a question
\* failed.
C2_MaxScoreAlways ==
    run.status # "loop" =>
        /\ run.status = "returned"
        /\ run.max_score = 10 * Len(teacher_answers)

\* C3: a teacher question the student map has no key for gets the record
\* with the sentinel answer, score 0 and the tier Incorrect, whatever the
\* backend would predict and whether or not it loaded; scoring such a
\* question never raises.
C3_MissingAnswerZero ==
    /\ Len(run.results) = run.idx
    /\ \A k \in 1..run.idx :
          teacher_answers[k].q \notin Keys(student_answers) =>
              run.results[k] = [Question      |-> teacher_answers[k].q,
                                TeacherAnswer |-> teacher_answers[k].a,
                                StudentAnswer |-> Sentinel,
                                Score         |-> "0/10",
                                Feedback      |-> Incorrect]
    /\ run.status = "raised" =>
          teacher_answers[run.idx + 1].q \in Keys(student_answers)

\* C3's case: the backend did not load, the student answered nothing the
\* teacher asked, and the call returned a record for a teacher question.
C3_Witness ==
    /\ model = None
    /\ run.status = "returned"
    /\ run.idx > 0
    /\ student_answers # <<>>

\* C4: the call on a student map and the call on the same map without its
\* student-only entries end alike: same results, total_score and max_score.
C4_ExtrasIgnored ==
    run.status # "loop" => Outcome(run) = Outcome(ref)

\* C4's case: a call returned a positive total for a student map that has an
\* entry the teacher's key does not have.
C4_Witness ==
    /\ run.status = "returned"
    /\ run.total_score > 0
    /\ ~(Keys(student_answers) \subseteq Keys(teacher_answers))

\* C5: the results are one per teacher question, in the teacher map's
\* order, each paired with the student's answer under the same key.
C5_AlignedById ==
    /\ Len(run.results) = run.idx
    /\ run.status = "returned" => run.idx = Len(teacher_answers)
    /\ \A k \in 1..run.idx :
          /\ run.results[k].Question = teacher_answers[k].q
          /\ run.results[k].TeacherAnswer = teacher_answers[k].a
          /\ teacher_answers[k].q \in Keys(student_answers) =>
                run.results[k].StudentAnswer =
                    Lookup(student_answers, teacher_answers[k].q)

\* C5's case: a call returned for two teacher questions that the student
\* answered in the opposite order, with different texts.
C5_Witness ==
    /\ run.status = "returned"
    /\ Len(teacher_answers) = 2
    /\ Len(student_answers) = 2
    /\ student_answers[1].q = teacher_answers[2].q
    /\ student_answers[2].q = teacher_answers[1].q
    /\ student_answers[1].a # student_answers[2].a

\* The number in a record's score string.
ScoreValue(str) ==
    CASE str = "10/10" -> 10
      [] str = "8/10"  -> 8
      [] str = "7/10"  -> 7
      [] str = "5/10"  -> 5
      [] str = "0/10"  -> 0

RECURSIVE SumScores(_)
SumScores(results) ==
    IF results = <<>> THEN 0
    ELSE ScoreValue(results[1].Score) + SumScores(Tail(results))

\* C16: the total_score is the sum of the scores recorded in the results,
\* each of them one of 0, 5, 7, 8, 10, so 0 <= total_score <= max_score;
\* this holds after every iteration and for what the call returns.
C16_TotalIsSum ==
    /\ \A k \in DOMAIN run.results :
          run.results[k].Score \in {"0/10", "5/10", "7/10", "8/10", "10/10"}
    /\ run.total_score = SumScores(run.results)
    /\ 0 <= run.total_score
    /\ run.total_score <= run.max_score

\* C16's case: a call returned two records, a partial answer and an
\* excellent one, and the total 15.
C16_Witness ==
    /\ run.status = "returned"
    /\ Len(run.results) = 2
    /\ run.results[1].Score = "5/10"
    /\ run.results[2].Score = "10/10"
    /\ run.total_score = 15

\* C17: every record carries the raw similarity its score was derived from,
\* and the score in the record is the mapping of that similarity.
C17_SimilarityRetained ==
    \A k \in DOMAIN run.results :
        /\ "Similarity" \in DOMAIN run.results[k]
        /\ run.results[k].Score = ScoreStr(GradeOf(run.results[k].Similarity).score)

\* C8: a backend that did not load, or a predict that raises, costs only the
\* question in flight: the call still returns a result for every teacher
\* question.
C8_ScoringFailureContained ==
    /\ run.status # "raised"
    /\ run.status = "returned" => Len(run.results) = Len(teacher_answers)

\* C11: the percentage computed for a returned (total, max) is total/max*100
\* when max > 0 and 0 when max is 0; computing it never raises a
\* division-by-zero fault.
C11_PercentageDefined ==
    percentage # <<>> =>
        LET pct == percentage[1]
        IN  /\ pct # Raises
            /\ run.max_score > 0 =>
                  /\ pct * run.max_score <= run.total_score * 100
                  /\ run.total_score * 100 < (pct + 1) * run.max_score
            /\ run.max_score = 0 => pct = 0

\* C11's case: the call returned (0, 0) for a key without questions, and the
\* percentage was computed.
C11_Witness ==
    /\ run.status = "returned"
    /\ run.max_score = 0
    /\ student_answers # <<>>
    /\ percentage = <<0>>

(***************************************************************************)
(* parse_answers: claims.                                                  *)
(***************************************************************************)

\* The dict a built text stands for: line k's number to line k's answer.
Expected(ls) == [k \in 1..Len(ls) |-> [q |-> ls[k].k, a |-> ls[k].ans]]

\* A marker somewhere in s.
HasMarker(s) == \E p \in 1..Len(s) : MatchAt(SubSeq(s, p, Len(s)), 1).ok

\* A non-empty single-line answer that contains no marker.
PlainAnswer(s) == s # <<>> /\ (\A k \in 1..Len(s) : s[k] # "\n") /\ ~HasMarker(s)

\* No number on two lines.
DistinctNumbers(ls) == \A x, y \in 1..Len(ls) : ls[x].k = ls[y].k => x = y

\* C6 as stated: a text built as lines "Q<k>: <ans_k>" with distinct
\* numbers and non-empty single-line marker-free answers parses to exactly
\* the dict of its lines.
C6_RoundTrip ==
    (/\ answers # <<>>
     /\ lines # <<>>
     /\ DistinctNumbers(lines)
     /\ \A k \in 1..Len(lines) : PlainAnswer(lines[k].ans))
        => answers[1] = Expected(lines)

\* C6, amended: the same, for answers that neither begin nor end with
\* whitespace.
C6_RoundTripTrimmed ==
    (/\ answers # <<>>
     /\ lines # <<>>
     /\ DistinctNumbers(lines)
     /\ \A k \in 1..Len(lines) :
           PlainAnswer(lines[k].ans) /\ Strip(lines[k].ans) = lines[k].ans)
        => answers[1] = Expected(lines)

\* C6's case: a text of two such lines, one answer of several words, was
\* parsed into two entries.
C6_Witness ==
    /\ answers # <<>>
    /\ Len(lines) = 2
    /\ \A k \in 1..Len(lines) :
          PlainAnswer(lines[k].ans) /\ Strip(lines[k].ans) = lines[k].ans
    /\ lines[1].ans = <<"a", " ", "b">>
    /\ lines[2].k = <<"1", "0">>
    /\ Len(answers[1]) = 2

\* C15: a marker is recognized at the start of every line that begins with
\* one. A text of lines "Q<k>: <ans_k>" with distinct numbers and marker-free
\* single-line answers, empty ones included, parses to one entry per line:
\* k to the trimmed ans_k. A marker line without answer text gets its own
\* entry, and so does the marker line after it.
C15_EveryMarkerLine ==
    (/\ answers # <<>>
     /\ lines # <<>>
     /\ DistinctNumbers(lines)
     /\ \A k \in 1..Len(lines) : ~HasMarker(lines[k].ans))
        => answers[1] = [k \in 1..Len(lines) |->
                            [q |-> lines[k].k, a |-> Strip(lines[k].ans)]]

\* The last match with the number num.
LastWith(match_list, num) ==
    CHOOSE k \in DOMAIN match_list :
        /\ match_list[k].num = num
        /\ \A j \in DOMAIN match_list : match_list[j].num = num => j <= k

\* The answer of match k: from its content to the next match, or to the
\* end of the text, trimmed.
AnswerOf(t, match_list, k) ==
    Strip(SubSeq(t, match_list[k].content,
                 IF k < Len(match_list) THEN match_list[k + 1].start - 1
                 ELSE Len(t)))

\* C21: the returned map is never empty and has no key twice; when markers
\* were matched it has exactly one entry per distinct matched number, and a
\* number matched at several markers holds the answer of its last one.
C21_LastOccurrenceWins ==
    answers # <<>> =>
        LET d          == answers[1]
            match_list == FindIter(text, 1)
            nums       == {match_list[k].num : k \in DOMAIN match_list}
        IN  /\ Len(d) >= 1
            /\ \A j, k \in DOMAIN d : d[j].q = d[k].q => j = k
            /\ match_list # <<>> =>
                  /\ Keys(d) = nums
                  /\ Len(d) = Cardinality(nums)
                  /\ \A n \in nums :
                        Lookup(d, n) =
                            AnswerOf(text, match_list, LastWith(match_list, n))

\* C21's case: a text of two lines with the same number and different
\* answers was parsed into one entry, the second line's answer.
C21_Witness ==
    /\ answers # <<>>
    /\ Len(lines) = 2
    /\ lines[1].k = lines[2].k
    /\ lines[1].ans = <<"a", " ", "b">>
    /\ lines[2].ans = <<"a">>
    /\ Len(FindIter(text, 1)) = 2
    /\ answers[1] = <<[q |-> lines[2].k, a |-> <<"a">>]>>

\* The line that starts at p.
LineAt(t, p) == SubSeq(t, p, LineEnd(t, p) - 1)

\* C7 as stated: when no line of the text, taken by itself, starts with a
\* marker, the result is {"1": the trimmed text}.
C7_NoMarkerLineFallback ==
    (/\ answers # <<>>
     /\ \A p \in 1..Len(text) :
           AtLineStart(text, p) => ~MatchAt(LineAt(text, p), 1).ok)
        => answers[1] = <<[q |-> <<"1">>, a |-> Strip(text)]>>

\* C7, amended: when the pattern matches at no line start of the text (the
\* whitespace it allows around the number may hold line breaks, so a marker
\* may run over several lines), the result is {"1": the trimmed text}.
C7_NoMatchFallback ==
    (/\ answers # <<>>
     /\ \A p \in 1..Len(text) : AtLineStart(text, p) => ~MatchAt(text, p).ok)
        => answers[1] = <<[q |-> <<"1">>, a |-> Strip(text)]>>

\* C7's case: a text with a number and a separator in it, and whitespace to
\* trim, had no match and was parsed.
C7_Witness ==
    /\ answers # <<>>
    /\ \A p \in 1..Len(text) : AtLineStart(text, p) => ~MatchAt(text, p).ok
    /\ Strip(text) # text
    /\ \E j, k \in 1..Len(text) : j < k /\ text[j] \in Digits /\ text[k] \in Separators

(***************************************************************************)
(* The batch loop: claims.                                                 *)
(***************************************************************************)

\* The scripts with an entry in the batch summary, and those saved.
Summarised == {overall_summary[k].Student : k \in DOMAIN overall_summary}
SaveCalled == {saved[k].student : k \in DOMAIN saved}
Reported   == {messages[k].about : k \in {j \in DOMAIN messages :
                                            messages[j].kind = "warning"}}

\* C9: a script whose transcription yields no text is reported and is
\* neither graded nor saved, and the loop goes on after it: every script
\* with text that the loop has passed is in the summary, a finished batch
\* has passed every script, and no run ends in the loop at a script without
\* text.
C9_SkipReportedBatchContinues ==
    /\ \A k \in 1..Len(student_files) :
          ~student_files[k].text =>
              /\ k <= i => k \in Reported
              /\ k \notin Summarised
              /\ k \notin SaveCalled
    /\ \A k \in 1..i : student_files[k].text => k \in Summarised /\ k \in SaveCalled
    /\ calls.grade <= Cardinality({k \in 1..Len(student_files) : student_files[k].text})
    /\ pc = "done" => i = Len(student_files)
    /\ pc = "crashed" => i < Len(student_files) /\ student_files[i + 1].text
    /\ pc = "stopped" => i = 0 /\ Reported = {}

\* C9's case: a batch finished in which a script without text was skipped
\* and a later script was graded and saved.
C9_Witness ==
    /\ pc = "done"
    /\ \E j, k \in 1..Len(student_files) :
          /\ j < k
          /\ ~student_files[j].text
          /\ j \in Reported
          /\ k \in Summarised
          /\ k \in SaveCalled

\* C10: a batch of more than 30 scripts is rejected with an error before
\* any file is processed, transcribed, graded or saved; a batch of exactly
\* 30 scripts is not rejected for its size.
C10_OverLimitRejectedFirst ==
    /\ (Len(student_files) > 30 /\ pc # "form") =>
          /\ pc = "stopped"
          /\ messages = <<IF teacher_file.kind = None THEN MissingUpload
                           ELSE LimitError>>
          /\ calls = NoCalls
          /\ saved = <<>>
          /\ overall_summary = <<>>
    /\ (Len(student_files) = 30 /\ teacher_file.kind # None /\ pc # "form") =>
          /\ \A k \in DOMAIN messages : messages[k] # LimitError
          /\ pc = "stopped" => calls.process = 1

\* C10's case: 31 scripts and a key were submitted, and the run was stopped.
C10_Witness ==
    /\ Len(student_files) = 31
    /\ teacher_file.kind # None
    /\ pc = "stopped"

\* C12: get_overall_feedback never raises. When the feedback model is not
\* available, or generate_content fails, the submission is saved with the
\* fixed placeholder as its overall_feedback and gets its summary entry; the
\* run never ends in a call of get_overall_feedback.
C12_FeedbackFailureNonFatal ==
    /\ \A n \in DOMAIN saved :
          LET f == student_files[saved[n].student]
          IN  /\ gemini = None => saved[n].overall_feedback = CouldNotGenerate
              /\ (gemini # None /\ f.feedback = "fails") =>
                    saved[n].overall_feedback = FailedToGenerate
              /\ saved[n].total_score = f.total
    /\ calls.save = calls.feedback
    /\ \A k \in 1..i : student_files[k].grading = "returns" =>
          k \in SaveCalled /\ k \in Summarised
    /\ pc = "crashed" => student_files[i + 1].grading = "raises"

\* C12's case: a batch finished in which generate_content failed for a
\* script, and the script was saved with the placeholder and summarised.
C12_Witness ==
    /\ pc = "done"
    /\ gemini # None
    /\ \E n \in DOMAIN saved :
          /\ student_files[saved[n].student].feedback = "fails"
          /\ saved[n].overall_feedback = FailedToGenerate
          /\ saved[n].student \in Summarised

\* C13: when save_results_to_db fails for a submission it returns False and
\* raises nothing: the failure is shown, the submission's total, max and
\* percentage are as computed and are in the batch summary, and the loop
\* goes on to the submissions after it.
C13_SaveFailureReported ==
    /\ \A n \in DOMAIN saved :
          ~saved[n].ok =>
              LET k == saved[n].student
                  f == student_files[k]
              IN  /\ k <= i
                  /\ \E m \in DOMAIN messages : messages[m] = SaveError(k)
                  /\ saved[n].total_score = f.total
                  /\ saved[n].max_score = 10 * teacher_file.questions
                  /\ saved[n].percentage = Percentage(f.total, saved[n].max_score)
                  /\ \E e \in DOMAIN overall_summary :
                        overall_summary[e] =
                            [Student    |-> k,
                             total      |-> saved[n].total_score,
                             max_s      |-> saved[n].max_score,
                             Percentage |-> saved[n].percentage]
    /\ \A n \in DOMAIN saved : saved[n].ok = student_files[saved[n].student].save
    /\ pc = "done" =>
          \A k \in 1..Len(student_files) : student_files[k].text => k \in Summarised
    /\ pc = "crashed" => \A n \in DOMAIN saved : saved[n].student <= i

\* C13's case: a batch finished in which the save of the first script failed
\* and the second script was graded and saved.
C13_Witness ==
    /\ pc = "done"
    /\ Len(saved) = 2
    /\ ~saved[1].ok
    /\ saved[2].ok
    /\ Summarised = {1, 2}

\* The scripts whose transcription yields text, in upload order.
Transcribed ==
    SelectSeq([k \in 1..Len(student_files) |-> k],
              LAMBDA k : student_files[k].text)

\* C19: after the loop finished, the batch summary has exactly one entry for
\* each script whose transcription yielded text, in upload order;
\* save_results_to_db was called exactly once for each of them, and never
\* for a skipped script.
C19_SummaryMatchesTranscribed ==
    pc = "done" =>
        /\ [e \in DOMAIN overall_summary |-> overall_summary[e].Student] = Transcribed
        /\ [n \in DOMAIN saved |-> saved[n].student] = Transcribed
        /\ calls.save = Len(Transcribed)

\* C19's case: a batch of a script without text and a script with text
\* finished, with one summary entry and one save.
C19_Witness ==
    /\ pc = "done"
    /\ Len(student_files) = 2
    /\ ~student_files[1].text
    /\ student_files[2].text
    /\ Len(overall_summary) = 1
    /\ Len(saved) = 1

(***************************************************************************)
(* The model cache and the database: claims.                               *)
(***************************************************************************)

\* C18: over any sequence of calls from any sessions of one process,
\* CrossEncoder(...) is constructed at most once, on the first call, and
\* every call is handed the same instance.
C18_LoadedAtMostOnce ==
    /\ constructions <= 1
    /\ handed # <<>> => constructions = 1
    /\ \A j, k \in DOMAIN handed : handed[j].model = handed[k].model

\* C18's case: three calls, from more than one session, were handed the one
\* loaded model.
C18_Witness ==
    /\ Len(handed) >= 3
    /\ handed[1].session # handed[3].session
    /\ handed[3].model.loaded
    /\ constructions = 1

\* The calls that returned True, in order.
Succeeded == SelectSeq(returns, LAMBDA r : r.value)

\* The detailed rows of calls rs: one per breakdown item, linked to the
\* call's results row.
RECURSIVE DetailedOf(_)
DetailedOf(rs) ==
    IF rs = <<>> THEN <<>>
    ELSE [n \in 1..Len(rs[1].detailed_breakdown) |->
             [result_id |-> rs[1].result_id,
              question  |-> rs[1].detailed_breakdown[n]]]
         \o DetailedOf(Tail(rs))

\* C20: save_results_to_db is all-or-nothing. The database holds exactly,
\* for each call that returned True, one results row and one detailed row
\* per breakdown item linked to that row's id; a call that returned False,
\* at whatever statement it failed, left no row.
C20_SaveAllOrNothing ==
    /\ db.results = [n \in 1..Len(Succeeded) |->
                        [id |-> Succeeded[n].result_id,
                         student_name |-> Succeeded[n].student_name]]
    /\ db.detailed = DetailedOf(Succeeded)
    /\ \A j, k \in DOMAIN db.results :
          db.results[j].id = db.results[k].id => j = k
    /\ \A n \in DOMAIN Succeeded :
          Succeeded[n].items = Len(Succeeded[n].detailed_breakdown)

\* C20's case: a call failed after it had inserted its results row and one
\* detailed row, and the next call saved a breakdown of two items.
C20_Witness ==
    /\ save_pc = "idle"
    /\ Len(returns) = 2
    /\ ~returns[1].value
    /\ returns[1].result_id # 0
    /\ returns[1].items = 1
    /\ returns[2].value
    /\ Len(returns[2].detailed_breakdown) = 2
    /\ Len(db.results) = 1
    /\ Len(db.detailed) = 2

(***************************************************************************)
(* The session's login state: claims.                                      *)
(***************************************************************************)

\* C22: logged_in is True exactly when the last successful action was a
\* login; that login's username is a row of the users table, its password
\* hashes to the row's stored hash, and username, role and subject of the
\* session are the row's. When logged_in is False, username, role and
\* subject are None. After a failed login the session is as it was before.
C22_SessionMatchesLastLogin ==
    /\ session.logged_in <=> last_success = "login"
    /\ session.logged_in =>
          /\ attempt.ok
          /\ \E row \in users :
                /\ row.username = attempt.username
                /\ row.password_hash =
                       hash_password(attempt.password, row.password_hash.salt)
                /\ session = [logged_in |-> TRUE, username |-> row.username,
                              role |-> row.role, subject |-> row.subject]
    /\ ~session.logged_in => session = LoggedOut
    /\ ~attempt.ok => session = attempt.before
    /\ \A r1, r2 \in users : r1.username = r2.username => r1 = r2

\* C22's case: after a logout, a login with a wrong password failed while
\* two users with different passwords exist.
C22_Witness ==
    /\ last_success = "logout"
    /\ ~attempt.ok
    /\ ~session.logged_in
    /\ \E r1, r2 \in users :
          /\ r1.username = attempt.username
          /\ r2.username # r1.username
          /\ check_password(attempt.password, r2.password_hash)
          /\ ~check_password(attempt.password, r1.password_hash)

====
